---- MODULE Spec2Model ----
(***************************************************************************)
(* Model of the WordPress fingerprinting service: the scrape endpoint      *)
(* (POST handler with its secondary probes, plugin merge and currency      *)
(* check) and the pure helpers it uses.                                    *)
(*                                                                         *)
(* Strings that the code inspects character by character (plugin names)    *)
(* are tuples of one-character strings.  Version strings are tuples of     *)
(* their dotted numeric components ("1.2.3" is <<1, 2, 3>>, "1.0" is       *)
(* <<1, 0>>); the three non-numeric values a version slot can hold are     *)
(* Null (JS null, "no match"), Unknown (the string "Unknown") and Absent   *)
(* (property never assigned).                                              *)
(***************************************************************************)
EXTENDS Integers, Sequences, FiniteSets, TLC

\* ------------------------------------------------------------------------
\* Bounds of the model
\* ------------------------------------------------------------------------

\* how many secondary probes / lookups of one request may fail
MaxFaults == 2

\* ------------------------------------------------------------------------
\* Version values
\* ------------------------------------------------------------------------

Null == <<-1>>

Unknown == <<-2>>

Absent == <<-3>>

V100 == <<1, 0, 0>>

V123 == <<1, 2, 3>>

V200 == <<2, 0, 0>>

V421 == <<4, 2, 1>>

V500 == <<5, 0, 0>>

V650 == <<6, 5, 0>>

V10 == <<1, 0>>

V20 == <<2, 0>>

V62 == <<6, 2>>

V65 == <<6, 5>>

V643 == <<6, 4, 3>>

V81 == <<8, 1>>

\* JS truthiness of a version slot: null and undefined are falsy, every
\* captured version string is non-empty and therefore truthy
Truthy(v) == v # Null /\ v # Absent

\* a || b on version slots
OrElse(a, b) == IF Truthy(a) THEN a ELSE b

\* semver.valid(v): strict MAJOR.MINOR.PATCH, three numeric components
SemverValid(v) == Len(v) = 3 /\ \A i \in 1..3 : v[i] >= 0

\* semver.gte(a, b) for valid a and b: numeric comparison, major first
SemverGte(a, b) ==
    \/ a[1] > b[1]
    \/ a[1] = b[1] /\ a[2] > b[2]
    \/ a[1] = b[1] /\ a[2] = b[2] /\ a[3] >= b[3]

\* plugin.isUpToDate as computed inside the registry callback
PluginCurrencyLoose(version, latestVersion) ==
    IF SemverValid(version) /\ SemverValid(latestVersion)
    THEN (IF SemverGte(version, latestVersion) THEN "true" ELSE "false")
    ELSE "false"

PluginCurrency(version, latestVersion) ==
    IF SemverValid(version) /\ SemverValid(latestVersion)
    THEN (IF SemverGte(version, latestVersion) THEN "true" ELSE "false")
    ELSE "undefined"

\* ------------------------------------------------------------------------
\* Plugin names (tuples of characters)
\* ------------------------------------------------------------------------

N_foo ==
    <<"f", "o", "o">>

N_Foo ==
    <<"F", "o", "o">>

N_bar ==
    <<"b", "a", "r">>

N_akismet ==
    <<"a", "k", "i", "s", "m", "e", "t">>

N_wordfence ==
    <<"w", "o", "r", "d", "f", "e", "n", "c", "e">>

N_revslider ==
    <<"r", "e", "v", "s", "l", "i", "d", "e", "r">>

N_RevSlider ==
    <<"R", "e", "v", "S", "l", "i", "d", "e", "r">>

N_WPBakery ==
    <<"W", "P", "B", "a", "k", "e", "r", "y", " ", "P", "a", "g", "e", " ",
      "B", "u", "i", "l", "d", "e", "r">>

N_ACFPro ==
    <<"A", "d", "v", "a", "n", "c", "e", "d", " ", "C", "u", "s", "t", "o",
      "m", " ", "F", "i", "e", "l", "d", "s", " ", "P", "r", "o">>

N_ElementorPro ==
    <<"E", "l", "e", "m", "e", "n", "t", "o", "r", " ", "P", "r", "o">>

NoName == <<>>

UpperCase == <<"A", "B", "C", "D", "E", "F", "G", "H", "I", "J", "K", "L", "M",
               "N", "O", "P", "Q", "R", "S", "T", "U", "V", "W", "X", "Y", "Z">>

LowerCase == <<"a", "b", "c", "d", "e", "f", "g", "h", "i", "j", "k", "l", "m",
               "n", "o", "p", "q", "r", "s", "t", "u", "v", "w", "x", "y", "z">>

Digits == {"0", "1", "2", "3", "4", "5", "6", "7", "8", "9"}

LowerChar(c) ==
    IF \E i \in 1..26 : UpperCase[i] = c
    THEN LowerCase[CHOOSE i \in 1..26 : UpperCase[i] = c]
    ELSE c

\* String.prototype.toLowerCase
toLowerCase(s) == [i \in 1..Len(s) |-> LowerChar(s[i])]

IsSlugChar(c) == c \in Digits \/ c = "-" \/ \E i \in 1..26 : LowerCase[i] = c

\* .replace(/[^a-z0-9-]/g, '-')
ReplaceNonSlug(s) == [i \in 1..Len(s) |-> IF IsSlugChar(s[i]) THEN s[i] ELSE "-"]

\* .replace(/-+/g, '-')
RECURSIVE CollapseHyphens(_)
CollapseHyphens(s) ==
    IF Len(s) <= 1 THEN s
    ELSE IF s[1] = "-" /\ s[2] = "-" THEN CollapseHyphens(Tail(s))
    ELSE <<s[1]>> \o CollapseHyphens(Tail(s))

\* .replace(/^-|-$/g, ''): one leading and one trailing hyphen are removed
TrimLeadingHyphen(s) == IF Len(s) > 0 /\ s[1] = "-" THEN Tail(s) ELSE s

TrimHyphens(s) ==
    LET a == IF Len(s) > 0 /\ s[1] = "-" THEN Tail(s) ELSE s
    IN  IF Len(a) > 0 /\ a[Len(a)] = "-" THEN SubSeq(a, 1, Len(a) - 1) ELSE a

normalizePluginSlug(name) ==
    TrimHyphens(CollapseHyphens(ReplaceNonSlug(toLowerCase(name))))

\* ------------------------------------------------------------------------
\* Plugin records
\* ------------------------------------------------------------------------

createPlugin(name, version) ==
    [name |-> name,
     version |-> OrElse(version, Unknown),
     versionDetected |-> (version # Null /\ version # Unknown),
     latestVersion |-> Absent,
     isUpToDate |-> "undefined"]

\* plugins.some(p => p.name === name)
HasNameNever(list, name) == FALSE

HasName(list, name) == \E i \in 1..Len(list) : list[i].name = name

\* plugins.some(p => p.name.toLowerCase() === name.toLowerCase())
HasNameIgnoreCase(list, name) ==
    \E i \in 1..Len(list) : toLowerCase(list[i].name) = toLowerCase(name)

\* if (!list.some(p => p.name === plugin.name)) list.push(plugin)
PushAlways(list, plugin) == Append(list, plugin)

PushIfNew(list, plugin) ==
    IF HasName(list, plugin.name) THEN list ELSE Append(list, plugin)

\* array.forEach(plugin => PushIfNew) over a list of plugin records
RECURSIVE MergeByName(_, _)
MergeByName(list, more) ==
    IF more = <<>> THEN list
    ELSE MergeByName(PushIfNew(list, Head(more)), Tail(more))

\* names.forEach(name => push createPlugin(name, null) unless present)
RECURSIVE PushNames(_, _)
PushNames(list, names) ==
    IF names = <<>> THEN list
    ELSE PushNames(PushIfNew(list, createPlugin(Head(names), Null)), Tail(names))

\* ------------------------------------------------------------------------
\* More names: security plugins, premium plugin directories
\* ------------------------------------------------------------------------

N_baz ==
    <<"b", "a", "z">>

N_sucuri ==
    <<"s", "u", "c", "u", "r", "i", "-", "s", "c", "a", "n", "n", "e", "r">>

N_aiowps ==
    <<"a", "l", "l", "-", "i", "n", "-", "o", "n", "e", "-", "w", "p", "-",
      "s", "e", "c", "u", "r", "i", "t", "y", "-", "a", "n", "d", "-", "f",
      "i", "r", "e", "w", "a", "l", "l">>

N_bwps ==
    <<"b", "e", "t", "t", "e", "r", "-", "w", "p", "-", "s", "e", "c", "u",
      "r", "i", "t", "y">>

N_shield ==
    <<"s", "h", "i", "e", "l", "d", "-", "s", "e", "c", "u", "r", "i", "t",
      "y">>

N_wsal ==
    <<"w", "p", "-", "s", "e", "c", "u", "r", "i", "t", "y", "-", "a", "u",
      "d", "i", "t", "-", "l", "o", "g">>

N_js_composer ==
    <<"j", "s", "_", "c", "o", "m", "p", "o", "s", "e", "r">>

N_acf_pro_dir ==
    <<"a", "d", "v", "a", "n", "c", "e", "d", "-", "c", "u", "s", "t", "o",
      "m", "-", "f", "i", "e", "l", "d", "s", "-", "p", "r", "o">>

N_elementor_pro ==
    <<"e", "l", "e", "m", "e", "n", "t", "o", "r", "-", "p", "r", "o">>

N_twentytwenty ==
    <<"t", "w", "e", "n", "t", "y">>

N_astra ==
    <<"a", "s", "t", "r", "a">>

\* what /\/wp-content\/themes\/([^/]+)/ captures from the href
\* /wp-content/themes/foo?ver=1
N_foo_ver ==
    <<"f", "o", "o", "?", "v", "e", "r", "=", "1">>

V1 == <<1>>

SecurityPlugins ==
    {N_wordfence, N_sucuri, N_aiowps, N_bwps, N_shield, N_wsal}

\* PREMIUM_PLUGIN_PATTERNS: display name, and the plugin directory its
\* asset fingerprints live in
PREMIUM_PLUGIN_PATTERNS ==
    <<[name |-> N_RevSlider, dir |-> N_revslider, anyAsset |-> TRUE],
      [name |-> N_WPBakery, dir |-> N_js_composer, anyAsset |-> FALSE],
      [name |-> N_ACFPro, dir |-> N_acf_pro_dir, anyAsset |-> FALSE],
      [name |-> N_ElementorPro, dir |-> N_elementor_pro, anyAsset |-> FALSE]>>

\* ------------------------------------------------------------------------
\* Pattern lists
\* ------------------------------------------------------------------------

\* PLUGIN_VERSION_PATTERNS by index: 1 is ?ver=, 2 and 3 are the versions
\* embedded in a file name, 4 is version[=/-], 5 and up the inline forms
NoMatches == <<>>

Min(S) == CHOOSE x \in S : \A y \in S : x <= y

\* for (const pattern of PATTERNS) { m = s.match(pattern); if (m) break }
\* pm maps the index of every pattern that matches to its capture
LastPatternMatch(pm) ==
    IF DOMAIN pm = {} THEN Null
    ELSE pm[CHOOSE x \in DOMAIN pm : \A y \in DOMAIN pm : x >= y]

FirstPatternMatch(pm) ==
    IF DOMAIN pm = {} THEN Null ELSE pm[Min(DOMAIN pm)]

\* table lookup with "no such file / no match" as Null
Lookup(tbl, key) == IF key \in DOMAIN tbl THEN tbl[key] ELSE Null

\* ------------------------------------------------------------------------
\* Signal extraction from the primary document
\* ------------------------------------------------------------------------

\* Method 1: stylesheet and script tags under /wp-content/plugins/
RECURSIVE ScanAssets(_, _)
ScanAssets(list, assets) ==
    IF assets = <<>> THEN list
    ELSE LET a == Head(assets)
             next == IF HasNameIgnoreCase(list, a.plugin) THEN list
                     ELSE Append(list, createPlugin(a.plugin, FirstPatternMatch(a.pm)))
         IN  ScanAssets(next, Tail(assets))

\* Method 2: HTML comments naming a plugin and its version
RECURSIVE ScanComments(_, _)
ScanComments(list, comments) ==
    IF comments = <<>> THEN list
    ELSE LET c == Head(comments)
         IN  ScanComments(PushIfNew(list, createPlugin(c.name, c.version)),
                          Tail(comments))

\* Method 3: generator-* meta and link tags
RECURSIVE ScanGenerators(_, _)
ScanGenerators(list, gens) ==
    IF gens = <<>> THEN list
    ELSE LET g == Head(gens)
             next == IF g.name # NoName /\ Truthy(g.version)
                     THEN PushIfNew(list, createPlugin(g.name, g.version))
                     ELSE list
         IN  ScanGenerators(next, Tail(gens))

PageMethods123(page) ==
    ScanGenerators(ScanComments(ScanAssets(<<>>, page.assets), page.comments),
                   page.gens)

\* Method 4: wp-json namespaces
RECURSIVE NamespaceNames(_)
NamespaceNames(namespaces) ==
    IF namespaces = <<>> THEN <<>>
    ELSE LET n == Head(namespaces)
         IN  (IF ~n.core THEN <<n.first>> ELSE <<>>) \o NamespaceNames(Tail(namespaces))

\* hasSecurityPlugin
SecurityCheck(list) ==
    \E i \in 1..Len(list) : toLowerCase(list[i].name) \in SecurityPlugins

\* isWPUpToDate against the fixed baseline "6.4.3"
latestWPVersion == V643

CoreCurrencyNoValidity(wpv) ==
    wpv # Unknown /\ SemverGte(wpv, latestWPVersion)

CoreCurrency(wpv) ==
    IF wpv # Unknown /\ SemverValid(wpv) THEN SemverGte(wpv, latestWPVersion) ELSE FALSE

\* html.includes('/wp-content/')
HasWpContent(page) ==
    page.assets # <<>> \/ page.themeLinks # <<>> \/ page.wpContentText

WordPressCheckApiLinkOnly(page, wpv) == page.apiLink

WordPressCheck(page, wpv) ==
    \/ page.apiLink
    \/ page.genHasWordPress
    \/ HasWpContent(page)
    \/ page.wpIncludes
    \/ wpv # Unknown

\* ------------------------------------------------------------------------
\* detectPremiumPlugins
\* ------------------------------------------------------------------------

\* capture of the first asset-URL fingerprint of entry k found in the html
RECURSIVE AssetFingerprint(_, _)
AssetFingerprint(entry, assets) ==
    IF assets = <<>> THEN Null
    ELSE LET a == Head(assets)
         IN  IF /\ a.plugin = entry.dir
                /\ 1 \in DOMAIN a.pm
                /\ (a.pfile \/ entry.anyAsset)
             THEN a.pm[1]
             ELSE AssetFingerprint(entry, Tail(assets))

\* capture of the inline (JSON) fingerprint of entry k in the scripts
RECURSIVE ScriptFingerprint(_, _)
ScriptFingerprint(k, scripts) ==
    IF scripts = <<>> THEN Null
    ELSE IF Truthy(Lookup(Head(scripts).premium, k))
         THEN Head(scripts).premium[k]
         ELSE ScriptFingerprint(k, Tail(scripts))

\* html.match(pattern) over the patterns of entry k, first match wins;
\* the raw html contains the asset tags and the inline script bodies
HtmlFingerprint(k, page) ==
    OrElse(AssetFingerprint(PREMIUM_PLUGIN_PATTERNS[k], page.assets),
           ScriptFingerprint(k, page.scripts))

RECURSIVE PremiumFromHtml(_, _, _)
PremiumFromHtml(list, k, page) ==
    IF k > Len(PREMIUM_PLUGIN_PATTERNS) THEN list
    ELSE LET e == PREMIUM_PLUGIN_PATTERNS[k]
             v == HtmlFingerprint(k, page)
             next == IF HasNameIgnoreCase(list, e.name) \/ ~Truthy(v) THEN list
                     ELSE Append(list, createPlugin(e.name, v))
         IN  PremiumFromHtml(next, k + 1, page)

RECURSIVE PremiumFromScript(_, _, _)
PremiumFromScript(list, k, script) ==
    IF k > Len(PREMIUM_PLUGIN_PATTERNS) THEN list
    ELSE LET e == PREMIUM_PLUGIN_PATTERNS[k]
             v == Lookup(script.premium, k)
             next == IF HasName(list, e.name) \/ ~Truthy(v) THEN list
                     ELSE Append(list, createPlugin(e.name, v))
         IN  PremiumFromScript(next, k + 1, script)

RECURSIVE PremiumFromScripts(_, _)
PremiumFromScripts(list, scripts) ==
    IF scripts = <<>> THEN list
    ELSE PremiumFromScripts(PremiumFromScript(list, 1, Head(scripts)), Tail(scripts))

detectPremiumPlugins(page) ==
    PremiumFromScripts(PremiumFromHtml(<<>>, 1, page), page.scripts)

\* ------------------------------------------------------------------------
\* detectTheme
\* ------------------------------------------------------------------------

NoTheme ==
    [name |-> NoName, version |-> Null, isChild |-> FALSE, parentTheme |-> NoName]

\* Method 1: every matching stylesheet link assigns theme
RECURSIVE ThemeFromLinks(_, _)
ThemeFromLinks(theme, links) ==
    IF links = <<>> THEN theme
    ELSE LET l == Head(links)
         IN  ThemeFromLinks([name |-> l.name, version |-> l.ver,
                             isChild |-> FALSE, parentTheme |-> NoName],
                            Tail(links))

\* Method 2: theme: <name> in the template / generator meta tag
ThemeFromMeta(theme, page) ==
    IF page.themeMeta # NoName /\ theme = NoTheme
    THEN [name |-> page.themeMeta, version |-> Null,
          isChild |-> FALSE, parentTheme |-> NoName]
    ELSE theme

\* Method 3: links that do not contain /themes/<name>/
ParentLinks(theme, links) ==
    SelectSeq(links, LAMBDA l : l.dir # theme.name)

ThemeWithParent(theme, links) ==
    IF theme = NoTheme \/ ParentLinks(theme, links) = <<>> THEN theme
    ELSE [theme EXCEPT !.isChild = TRUE,
                       !.parentTheme = ParentLinks(theme, links)[1].name]

detectTheme(page) ==
    ThemeWithParent(ThemeFromMeta(ThemeFromLinks(NoTheme, page.themeLinks), page),
                    page.themeLinks)

\* ------------------------------------------------------------------------
\* Requests
\* ------------------------------------------------------------------------

\* The parsed JSON body of the request.  json is "throws" when the body is
\* not JSON, "null" for the JSON value null, "value" for every other JSON
\* value; url is the value of its url property ("undefined" when it has
\* none).
UrlUndefined == "undefined"

UrlNull == "null"

UrlEmpty == ""

UrlMalformed == "not a url"

UrlRelative == "/wp-admin"

UrlSite == "https://site.test/"

Bodies ==
    {[json |-> "throws", url |-> UrlUndefined],
     [json |-> "null", url |-> UrlUndefined],
     [json |-> "value", url |-> UrlUndefined],
     [json |-> "value", url |-> UrlNull],
     [json |-> "value", url |-> UrlEmpty],
     [json |-> "value", url |-> UrlMalformed],
     [json |-> "value", url |-> UrlRelative],
     [json |-> "value", url |-> UrlSite]}

\* !url
Falsy(url) == url \in {UrlUndefined, UrlNull, UrlEmpty}

\* new URL(url) does not throw: the string is an absolute URL
ParsesAsURL(url) == url = UrlSite

\* status codes the target answers the primary fetch with
PrimaryStatuses == {200, 404, 503}

\* response.ok
IsOk(status) == status >= 200 /\ status <= 299

\* ------------------------------------------------------------------------
\* Sites: what the target host and the registry serve
\* ------------------------------------------------------------------------

N_wp == <<"w", "p">>

\* a changelog file: word is whether /[#\s]*(version|v)\s*([0-9.]+)/i
\* matches it, heading the capture of /^#+\s*([0-9.]+)/m
NoChangelog == [word |-> FALSE, heading |-> Null]

BasePage ==
    [metaDescription |-> "undefined",
     genWp |-> Null, genHasWordPress |-> FALSE, genPhp |-> Null,
     rssV |-> Null, hdrPhp |-> Null, hdrApache |-> Null,
     apiLink |-> FALSE, wpIncludes |-> FALSE, wpContentText |-> FALSE,
     assets |-> <<>>, comments |-> <<>>, gens |-> <<>>, scripts |-> <<>>,
     themeLinks |-> <<>>, themeMeta |-> NoName]

NoFeeds == <<<<>>, <<>>, <<>>>>

NoErrors == <<<<>>, <<>>>>

BaseSite ==
    [page |-> BasePage,
     readmeHtml |-> Null, phpinfo |-> Null,
     namespaces |-> <<>>, latest |-> <<>>,
     dirListing |-> <<>>, dirReadme |-> <<>>,
     header |-> <<>>, changelog |-> <<>>,
     ajax |-> <<>>, feeds |-> NoFeeds, errors |-> NoErrors]

\* generator meta tag "WordPress 6.2", nothing else
SitePlain ==
    [BaseSite EXCEPT
       !.page = [BasePage EXCEPT !.genWp = V62, !.genHasWordPress = TRUE,
                                 !.hdrPhp = V81, !.metaDescription = "text"],
       !.namespaces = <<[first |-> N_wp, core |-> TRUE]>>]

\* one versioned asset; core and PHP version only behind readme.html and
\* phpinfo.php; feeds and error pages leak the same plugin path
SiteAkismet ==
    [BaseSite EXCEPT
       !.page = [BasePage EXCEPT
                   !.assets = <<[plugin |-> N_akismet, pm |-> (1 :> V421),
                                 pfile |-> FALSE]>>,
                   !.themeLinks = <<[name |-> N_foo_ver, ver |-> V1,
                                     dir |-> NoName]>>],
       !.readmeHtml = V643, !.phpinfo = V81,
       !.latest = (N_akismet :> V500),
       !.feeds = <<<<N_akismet>>, <<>>, <<N_bar>>>>,
       !.errors = <<<<N_akismet>>, <<N_akismet, N_baz>>>>]

\* a premium plugin served from its own directory, and a security plugin
\* with a two-component version
SitePremium ==
    [BaseSite EXCEPT
       !.page = [BasePage EXCEPT
                   !.genWp = V65, !.genHasWordPress = TRUE, !.hdrPhp = V81,
                   !.assets = <<[plugin |-> N_revslider, pm |-> (1 :> V650),
                                 pfile |-> TRUE],
                                [plugin |-> N_wordfence,
                                 pm |-> (2 :> V10 @@ 4 :> V123),
                                 pfile |-> FALSE],
                                [plugin |-> N_bar, pm |-> (1 :> V123 @@ 3 :> V100),
                                 pfile |-> FALSE]>>],
       !.latest = (N_wordfence :> V20 @@ N_bar :> V123)]

\* a plugin found by an unversioned asset, named again with a version by a
\* comment; its main file and changelog carry versions
SiteFoo ==
    [BaseSite EXCEPT
       !.page = [BasePage EXCEPT
                   !.genWp = V650, !.genHasWordPress = TRUE, !.hdrPhp = V81,
                   !.assets = <<[plugin |-> N_foo, pm |-> NoMatches,
                                 pfile |-> FALSE]>>,
                   !.comments = <<[name |-> N_foo, version |-> V123],
                                  [name |-> N_Foo, version |-> V123],
                                  [name |-> N_baz, version |-> Unknown]>>,
                   !.gens = <<[name |-> N_bar, version |-> V100],
                              [name |-> N_baz, version |-> Null]>>,
                   !.themeLinks = <<[name |-> N_astra, ver |-> V100,
                                     dir |-> N_astra],
                                    [name |-> N_twentytwenty, ver |-> Null,
                                     dir |-> N_twentytwenty]>>],
       !.latest = (N_foo :> V123 @@ N_bar :> V200),
       !.header = (N_baz :> V200),
       !.changelog = (N_foo :> <<NoChangelog,
                                 [word |-> FALSE, heading |-> V100],
                                 NoChangelog, NoChangelog>>)]

\* nothing in the page; plugins only behind wp-json, the directory
\* listing, admin-ajax, feeds and error pages
SiteDir ==
    [BaseSite EXCEPT
       !.page = [BasePage EXCEPT
                   !.rssV = V500, !.genPhp = V81, !.wpContentText = TRUE,
                   !.scripts = <<[mentions |-> {N_baz}, pm |-> (10 :> V20),
                                  premium |-> <<>>]>>],
       !.namespaces = <<[first |-> N_wp, core |-> TRUE],
                        [first |-> N_baz, core |-> FALSE]>>,
       !.latest = (N_baz :> V20),
       !.dirListing = <<[name |-> N_foo, slash |-> TRUE, up |-> FALSE],
                        [name |-> N_wp, slash |-> TRUE, up |-> TRUE],
                        [name |-> N_bar, slash |-> TRUE, up |-> FALSE]>>,
       !.dirReadme = (N_foo :> V123),
       !.header = (N_baz :> V200 @@ N_bar :> V10),
       !.changelog = (N_bar :> <<[word |-> TRUE, heading |-> V100],
                                 NoChangelog, NoChangelog, NoChangelog>>),
       !.ajax = <<N_bar, N_akismet>>,
       !.feeds = <<<<N_foo>>, <<N_wordfence>>, <<>>>>,
       !.errors = <<<<N_wordfence>>, <<N_wordfence>>>>]

Sites == {SitePlain, SiteAkismet, SitePremium, SiteFoo, SiteDir}

\* ------------------------------------------------------------------------
\* State of one request to the scrape endpoint
\* ------------------------------------------------------------------------

VARIABLES
    pc,                \* await the handler is suspended at
    body,              \* parsed request body
    site,              \* what the target and the registry serve
    faults,            \* failed probes so far
    failed,            \* fetches that failed: [probe, how, at], at being
                       \* the number of requests issued until then
    primaryStatus,     \* status the primary fetch was answered with, or 0
    netlog,            \* outbound requests in the order they were issued
    evidence,          \* probes whose response added a plugin or a version
    resp,              \* the response sent
    nresp,             \* number of responses sent
    wpVersion,
    phpVersion,
    apacheVersion,
    plugins,           \* the shared plugin list
    hasSecurityPlugin,
    isWPUpToDate,
    isWordPress,
    theme,
    pending,           \* unresolved members of the current Promise.all group
    dirPlugins,        \* scanPluginDirectory's local list
    vstage,            \* per plugin: step of its version probe callback
    feedPending,       \* feed fetches still in flight
    feedPlugins,       \* checkFeedForPlugins' local list
    feedReturned       \* checkFeedForPlugins has returned

\* State of one request to the analysis endpoint
VARIABLES
    apc,               \* where the analysis handler is suspended
    abody,             \* parsed request body
    attempt,           \* retryWithBackoff's loop variable i
    sent,              \* prompts sent to the language model, one per call
    outcomes,          \* how each call ended, in order
    waits,             \* delays waited (milliseconds), in order
    aresp              \* the response sent

\* Input and result of normalizePluginSlug
VARIABLES
    slugIn,            \* the argument of the last call
    slugOut,           \* its result
    slugCalls          \* calls made so far

\* State of the page component (its hooks) and of one run of handleSubmit
VARIABLES
    upc,               \* where handleSubmit is suspended
    loading,           \* the hook of the same name
    analyzing,         \* the hook of the same name
    uerror,            \* the hook error
    uresult,           \* the hook result
    analysis,          \* the hook of the same name
    calls,             \* endpoints fetched since the page was loaded, in order
    scrapeAnswer,      \* how the scrape endpoint answered the last submit
    exported           \* the export button was pressed since the last submit

avars == <<apc, abody, attempt, sent, outcomes, waits, aresp>>

svars == <<slugIn, slugOut, slugCalls>>

uvars ==
    <<upc, loading, analyzing, uerror, uresult, analysis, calls, scrapeAnswer,
      exported>>

scrapeVars ==
    <<pc, body, site, faults, failed, primaryStatus, netlog, evidence, resp, nresp,
      wpVersion, phpVersion, apacheVersion, plugins, hasSecurityPlugin,
      isWPUpToDate, isWordPress, theme, pending, dirPlugins, vstage,
      feedPending, feedPlugins, feedReturned>>

vars == <<scrapeVars, avars, svars, uvars>>

\* outbound requests: <<kind, plugin name or slug, k>>, k being the file
\* or URL index, and for a registry lookup the index of the plugin whose
\* callback issued it
Probe(kind, name, k) == <<kind, name, k>>

\* the URL a request goes to
UrlOf(probe) ==
    IF probe[1] = "registry" THEN <<probe[1], probe[2], 0>> ELSE probe

P_primary == Probe("primary", NoName, 0)

P_readme == Probe("readme.html", NoName, 0)

P_phpinfo == Probe("phpinfo.php", NoName, 0)

P_wpjson == Probe("wp-json", NoName, 0)

P_dir == Probe("plugins/", NoName, 0)

P_ajax == Probe("admin-ajax.php", NoName, 0)

FeedUrls == 1..3

ErrorUrls == 1..2

ChangelogFiles == 1..4

\* how a fetch ends: 2xx with the site's body, non-2xx with the same body,
\* or a rejected promise
Outcomes == {"ok", "non2xx", "neterr"}

NoResponse == [kind |-> "none", status |-> 0, body |-> <<>>]

ReportFields ==
    {"title", "metaDescription", "isWordPress", "wpVersion", "phpVersion",
     "apacheVersion", "plugins", "hasSecurityPlugin", "isWPUpToDate", "theme"}

\* the handler's locals as one record, so that the synchronous stretch
\* between two awaits is a composition of functions on it
Frame ==
    [pc |-> pc, netlog |-> netlog, evidence |-> evidence, resp |-> resp,
     nresp |-> nresp, wpVersion |-> wpVersion, phpVersion |-> phpVersion,
     apacheVersion |-> apacheVersion, plugins |-> plugins,
     hasSecurityPlugin |-> hasSecurityPlugin, isWPUpToDate |-> isWPUpToDate,
     isWordPress |-> isWordPress, theme |-> theme, pending |-> pending,
     dirPlugins |-> dirPlugins, vstage |-> vstage,
     feedPending |-> feedPending, feedPlugins |-> feedPlugins,
     feedReturned |-> feedReturned]

Commit(F) ==
    /\ pc' = F.pc
    /\ netlog' = F.netlog
    /\ evidence' = F.evidence
    /\ resp' = F.resp
    /\ nresp' = F.nresp
    /\ wpVersion' = F.wpVersion
    /\ phpVersion' = F.phpVersion
    /\ apacheVersion' = F.apacheVersion
    /\ plugins' = F.plugins
    /\ hasSecurityPlugin' = F.hasSecurityPlugin
    /\ isWPUpToDate' = F.isWPUpToDate
    /\ isWordPress' = F.isWordPress
    /\ theme' = F.theme
    /\ pending' = F.pending
    /\ dirPlugins' = F.dirPlugins
    /\ vstage' = F.vstage
    /\ feedPending' = F.feedPending
    /\ feedPlugins' = F.feedPlugins
    /\ feedReturned' = F.feedReturned

\* fetch(...) is called: the request leaves
Issue(F, probes) == [F EXCEPT !.netlog = @ \o probes]

\* the response body was used to add a plugin or a version
Used(F, probe, used) ==
    IF used THEN [F EXCEPT !.evidence = @ \cup {probe}] ELSE F

\* ------------------------------------------------------------------------
\* Responses
\* ------------------------------------------------------------------------

\* NextResponse.json({error: ...}, {status})
ErrorResponse(F, status) ==
    [F EXCEPT !.pc = "done", !.nresp = @ + 1,
              !.resp = [kind |-> "error", status |-> status,
                        body |-> [error |-> "error"]]]

\* the outer catch: 500 with error and details
CatchAll(F) ==
    [F EXCEPT !.pc = "done", !.nresp = @ + 1,
              !.resp = [kind |-> "error", status |-> 500,
                        body |-> [error |-> "error", details |-> "details"]]]

ReportWithoutTheme(F, page) ==
    [title |-> "title", metaDescription |-> page.metaDescription,
     isWordPress |-> F.isWordPress, wpVersion |-> F.wpVersion,
     phpVersion |-> F.phpVersion, apacheVersion |-> F.apacheVersion,
     plugins |-> F.plugins, hasSecurityPlugin |-> F.hasSecurityPlugin,
     isWPUpToDate |-> F.isWPUpToDate]

\* the object passed to the final NextResponse.json
Report(F, page) ==
    [title |-> "title", metaDescription |-> page.metaDescription,
     isWordPress |-> F.isWordPress, wpVersion |-> F.wpVersion,
     phpVersion |-> F.phpVersion, apacheVersion |-> F.apacheVersion,
     plugins |-> F.plugins, hasSecurityPlugin |-> F.hasSecurityPlugin,
     isWPUpToDate |-> F.isWPUpToDate, theme |-> F.theme]

Finish(F, s) ==
    [F EXCEPT !.pc = "done", !.nresp = @ + 1,
              !.resp = [kind |-> "report", status |-> 200,
                        body |-> Report(F, s.page)]]

\* ------------------------------------------------------------------------
\* What each probe takes from its response (o is the outcome of the fetch,
\* the second argument what the site serves at that URL)
\* ------------------------------------------------------------------------

\* readme.html: /Version\s+([\d.]+)/ of a 2xx body
readmeVersion(o, served) == IF o = "ok" THEN served ELSE Null

\* phpinfo.php: /PHP Version\s+([\d.]+)/ of a 2xx body
phpinfoVersion(o, served) == IF o = "ok" THEN served ELSE Null

\* wp-json: non-core namespaces of a 2xx body
wpJsonNames(o, namespaces) ==
    IF o = "ok" THEN NamespaceNames(namespaces) ELSE <<>>

\* getLatestPluginVersion: null unless 2xx with a version
getLatestPluginVersionOrUnknown(o, served) ==
    IF o = "ok" /\ Truthy(served) THEN served ELSE Unknown

getLatestPluginVersion(o, served) ==
    IF o = "ok" /\ Truthy(served) THEN served ELSE Null

\* scanPluginDirectory: names of the listed subdirectories of a 2xx body
RECURSIVE ListingNames(_, _)
ListingNames(acc, listing) ==
    IF listing = <<>> THEN acc
    ELSE LET e == Head(listing)
             keep == e.slash /\ ~e.up /\ e.name # NoName
         IN  ListingNames(IF keep THEN PushIfNew(acc, createPlugin(e.name, Null))
                          ELSE acc,
                          Tail(listing))

scanListingAnyStatus(o, listing) ==
    IF o # "neterr" THEN ListingNames(<<>>, listing) ELSE <<>>

scanListing(o, listing) ==
    IF o = "ok" THEN ListingNames(<<>>, listing) ELSE <<>>

\* readme.txt of a listed plugin: Stable tag / Version of a 2xx body
dirReadmeVersion(o, served) == IF o = "ok" THEN served ELSE Null

\* checkPluginHeaders
checkPluginHeaders(o, served) == IF o = "ok" THEN served ELSE Null

\* checkPluginChangelog on one file.  The first regex captures the word
\* (version|v) in group 1 and the number in group 2, the second regex the
\* number in group 1; the function returns match[1] || match[2].
VersionWord == <<-4>>

changelogFileVersion(o, served) ==
    IF o # "ok" THEN Null
    ELSE IF served.word THEN VersionWord
    ELSE served.heading

ChangelogServed(s, name, k) ==
    IF name \in DOMAIN s.changelog THEN s.changelog[name][k] ELSE NoChangelog

\* checkWPAjaxForPlugins
ajaxNames(o, names) == IF o = "ok" THEN names ELSE <<>>

\* one feed of checkFeedForPlugins
feedNames(o, names) == IF o = "ok" THEN names ELSE <<>>

\* one error URL: the body is read whatever the status
errorPageNames(o, names) == IF o # "neterr" THEN names ELSE <<>>

\* the $('script').each of the late version detection
RECURSIVE InlineScriptVersion(_, _)
InlineScriptVersion(name, scripts) ==
    IF scripts = <<>> THEN Null
    ELSE LET sc == Head(scripts)
             v == IF name \in sc.mentions THEN FirstPatternMatch(sc.pm) ELSE Null
         IN  IF Truthy(v) THEN v ELSE InlineScriptVersion(name, Tail(scripts))

SetVersionOnly(list, i, v) == [list EXCEPT ![i].version = v]

SetVersion(list, i, v) ==
    [list EXCEPT ![i].version = v, ![i].versionDetected = TRUE]

\* ------------------------------------------------------------------------
\* The handler, from its end to its start: each operator is the code that
\* runs from one point up to the next await
\* ------------------------------------------------------------------------

\* error-page probes, then the report
StartErrorPages(F, s) ==
    Issue([F EXCEPT !.pc = "errors", !.pending = ErrorUrls],
          [k \in ErrorUrls |-> Probe("error-url", NoName, k)])

\* checkFeedForPlugins returned: merge its list, go on
AfterFeeds(F, s) ==
    StartErrorPages([F EXCEPT !.plugins = MergeByName(@, F.feedPlugins),
                              !.feedReturned = TRUE], s)

StartFeeds(F, s) ==
    Issue([F EXCEPT !.pc = "feeds", !.feedPending = FeedUrls,
                    !.feedPlugins = <<>>],
          [k \in FeedUrls |-> Probe("feed", NoName, k)])

AfterAjax(F, s, ajaxPlugins) ==
    StartFeeds([F EXCEPT !.plugins = MergeByName(@, ajaxPlugins)], s)

StartAjax(F, s) == Issue([F EXCEPT !.pc = "ajax"], <<P_ajax>>)

\* a version probe callback ended; the group resolves with its last member
AfterVersionProbe(F, s) ==
    IF \A i \in 1..Len(F.vstage) : F.vstage[i] = 0
    THEN StartAjax(F, s)
    ELSE F

\* header and changelog gave nothing: inline scripts, end of the callback
InlineScripts(F, s, i) ==
    LET v == InlineScriptVersion(F.plugins[i].name, s.page.scripts)
        G == [F EXCEPT !.vstage[i] = 0]
    IN  AfterVersionProbe(
            IF Truthy(v) THEN [G EXCEPT !.plugins = SetVersion(@, i, v)] ELSE G, s)

\* vstage: 0 callback ended, 1 awaiting the main file, 1 + k awaiting
\* changelog file k
HeaderProbes(list) ==
    SelectSeq([i \in 1..Len(list) |->
                  IF list[i].versionDetected THEN <<>>
                  ELSE Probe("plugin.php", list[i].name, 0)],
              LAMBDA p : p # <<>>)

StartVersionProbes(F, s) ==
    LET st == [i \in 1..Len(F.plugins) |->
                  IF F.plugins[i].versionDetected THEN 0 ELSE 1]
    IN  AfterVersionProbe(
            Issue([F EXCEPT !.pc = "vprobe", !.vstage = st],
                  HeaderProbes(F.plugins)), s)

\* directory and premium merge, theme
AfterDirectory(F, s, directoryPlugins) ==
    StartVersionProbes(
        [F EXCEPT !.plugins = MergeByName(MergeByName(@, directoryPlugins),
                                          detectPremiumPlugins(s.page)),
                  !.theme = detectTheme(s.page),
                  !.pending = {}], s)

StartDirectory(F, s) == Issue([F EXCEPT !.pc = "dir", !.pending = {}], <<P_dir>>)

\* registry lookups: one per plugin of the list, all launched at once
StartRegistry(F, s) ==
    IF F.plugins = <<>> THEN StartDirectory(F, s)
    ELSE Issue([F EXCEPT !.pc = "registry", !.pending = 1..Len(F.plugins)],
               [i \in 1..Len(F.plugins) |->
                   Probe("registry", normalizePluginSlug(F.plugins[i].name), i)])

\* wp-json merge, security check, core currency, WordPress detection
AfterWpJson(F, s, names) ==
    LET list == PushNames(F.plugins, names)
    IN  StartRegistry([F EXCEPT !.plugins = list,
                                !.hasSecurityPlugin = SecurityCheck(list),
                                !.isWPUpToDate = CoreCurrency(F.wpVersion),
                                !.isWordPress = WordPressCheck(s.page, F.wpVersion)],
                      s)

\* server header, plugin detection methods 1 to 3, then wp-json
StartPlugins(F, s) ==
    Issue([F EXCEPT !.pc = "wpjson",
                    !.apacheVersion = OrElse(s.page.hdrApache, Unknown),
                    !.plugins = PageMethods123(s.page)],
          <<P_wpjson>>)

AfterPhp(F, s, phpVersionMatch) ==
    StartPlugins([F EXCEPT !.phpVersion = OrElse(phpVersionMatch, Unknown)], s)

StartPhp(F, s) ==
    LET m == OrElse(s.page.genPhp, s.page.hdrPhp)
    IN  IF Truthy(m) THEN AfterPhp(F, s, m)
        ELSE Issue([F EXCEPT !.pc = "phpinfo"], <<P_phpinfo>>)

AfterWp(F, s, wpVersionMatch) ==
    StartPhp([F EXCEPT !.wpVersion = OrElse(wpVersionMatch, Unknown)], s)

\* the primary fetch answered 2xx
AfterPrimary(F, s) ==
    LET m == OrElse(s.page.genWp, s.page.rssV)
    IN  IF Truthy(m) THEN AfterWp(F, s, m)
        ELSE Issue([F EXCEPT !.pc = "readme"], <<P_readme>>)

\* the primary fetch answered non-2xx: propagate the status
PrimaryAbortsServerErrors(status) == status >= 500

PrimaryAborts(status) == ~IsOk(status)

\* request validation: 0 when the request goes on to the primary fetch,
\* otherwise the status of the error response
ValidationStatusNoParse(b) ==
    IF b.json \in {"throws", "null"} THEN 500
    ELSE IF Falsy(b.url) THEN 400
    ELSE 0

ValidationStatus(b) ==
    IF b.json \in {"throws", "null"} THEN 500
    ELSE IF Falsy(b.url) THEN 400
    ELSE IF ~ParsesAsURL(b.url) THEN 400
    ELSE 0

\* ------------------------------------------------------------------------
\* The scrape endpoint at rest (no request)
\* ------------------------------------------------------------------------

ScrapeIdle ==
    /\ pc = "idle"
    /\ body = [json |-> "value", url |-> UrlUndefined]
    /\ site = BaseSite
    /\ faults = 0
    /\ failed = {}
    /\ primaryStatus = 0
    /\ netlog = <<>>
    /\ evidence = {}
    /\ resp = NoResponse
    /\ nresp = 0
    /\ wpVersion = Unknown
    /\ phpVersion = Unknown
    /\ apacheVersion = Unknown
    /\ plugins = <<>>
    /\ hasSecurityPlugin = FALSE
    /\ isWPUpToDate = FALSE
    /\ isWordPress = FALSE
    /\ theme = NoTheme
    /\ pending = {}
    /\ dirPlugins = <<>>
    /\ vstage = <<>>
    /\ feedPending = {}
    /\ feedPlugins = <<>>
    /\ feedReturned = FALSE

\* ------------------------------------------------------------------------
\* The analysis endpoint: POST with a site report, one language-model
\* call under retryWithBackoff
\* ------------------------------------------------------------------------

\* longest plugin list of a request body
MaxPlugins == 2

\* default of retryWithBackoff's maxRetries parameter
maxRetries == 3

\* plugin entries of a request body; Absent marks a property the entry
\* does not have
SamplePlugins ==
    {[name |-> N_akismet, version |-> V421, currentVersion |-> Absent,
      latestVersion |-> V500],
     [name |-> N_foo, version |-> Unknown, currentVersion |-> Absent,
      latestVersion |-> Absent],
     [name |-> N_bar, version |-> Absent, currentVersion |-> V100,
      latestVersion |-> V123]}

PluginLists ==
    UNION {[1..n -> SamplePlugins] : n \in 0..MaxPlugins}

\* the parsed request body: json as for the scrape endpoint; hasPlugins is
\* whether the value has a plugins array
AnalysisBodies ==
    {[json |-> "throws", hasPlugins |-> FALSE, plugins |-> <<>>],
     [json |-> "null", hasPlugins |-> FALSE, plugins |-> <<>>],
     [json |-> "value", hasPlugins |-> FALSE, plugins |-> <<>>]}
    \cup {[json |-> "value", hasPlugins |-> TRUE, plugins |-> l] : l \in PluginLists}

\* how a call of the language model can fail
CallErrors == {"timeout", "rate limit"}

\* message.content of a completion
Contents == {"text", "null"}

NoAnalysisResponse == [kind |-> "none", status |-> 0, body |-> <<>>]

\* one line of the prompt's plugin list: the name, the version shown
\* after "v" and the version shown after "Latest:"
PluginLine(p) ==
    [name |-> p.name,
     shown |-> IF Truthy(p.currentVersion) THEN p.currentVersion ELSE Null,
     latest |-> IF Truthy(p.latestVersion) THEN p.latestVersion ELSE Null]

\* the template literal: throws when data is null or has no plugins array
PromptThrows(b) == b.json \in {"throws", "null"} \/ ~b.hasPlugins

Prompt(b) == [i \in 1..Len(b.plugins) |-> PluginLine(b.plugins[i])]

\* the analysis handler's locals as one record
AFrame ==
    [apc |-> apc, attempt |-> attempt, sent |-> sent, outcomes |-> outcomes,
     waits |-> waits, aresp |-> aresp]

ACommit(A) ==
    /\ apc' = A.apc
    /\ attempt' = A.attempt
    /\ sent' = A.sent
    /\ outcomes' = A.outcomes
    /\ waits' = A.waits
    /\ aresp' = A.aresp

\* the handler's catch: 500 with error and details
AnalysisCatch(A, message) ==
    [A EXCEPT !.apc = "done",
              !.aresp = [kind |-> "error", status |-> 500,
                         body |-> [error |-> "error", details |-> message]]]

\* NextResponse.json({analysis: completion.choices[0].message.content})
AnalysisResponse(A, content) ==
    [A EXCEPT !.apc = "done",
              !.aresp = [kind |-> "analysis", status |-> 200,
                         body |-> [analysis |-> content]]]

\* Math.pow(2, i) * 1000
DelayConstant(i) == 1000

Delay(i) == (2 ^ i) * 1000

\* return await fn(): the call leaves
CallModel(A, b) ==
    [A EXCEPT !.apc = "calling", !.sent = Append(@, Prompt(b))]

\* if (i === maxRetries - 1) throw error
LastAttemptNever(i) == FALSE

LastAttempt(i) == i = maxRetries - 1

\* the catch clause of the loop body
RetryCatch(A, message) ==
    IF LastAttempt(A.attempt) THEN AnalysisCatch(A, message)
    ELSE [A EXCEPT !.apc = "waiting", !.waits = Append(@, Delay(A.attempt))]

\* i++ and the loop test; a loop that runs out returns undefined, and
\* completion.choices then throws
NextIteration(A, b) ==
    LET B == [A EXCEPT !.attempt = @ + 1]
    IN  IF B.attempt < maxRetries THEN CallModel(B, b)
        ELSE AnalysisCatch(B, "TypeError")

AnalysisIdle ==
    /\ apc = "idle"
    /\ abody = [json |-> "value", hasPlugins |-> FALSE, plugins |-> <<>>]
    /\ attempt = 0
    /\ sent = <<>>
    /\ outcomes = <<>>
    /\ waits = <<>>
    /\ aresp = NoAnalysisResponse

SlugIdle ==
    /\ slugIn = <<>>
    /\ slugOut = <<>>
    /\ slugCalls = 0

\* the page as first rendered: the hooks' initial values
UIIdle ==
    /\ upc = "idle"
    /\ loading = FALSE
    /\ analyzing = FALSE
    /\ uerror = "null"
    /\ uresult = "null"
    /\ analysis = "null"
    /\ calls = <<>>
    /\ scrapeAnswer = "none"
    /\ exported = FALSE

InitAnalyze ==
    /\ apc = "start"
    /\ abody \in AnalysisBodies
    /\ attempt = 0
    /\ sent = <<>>
    /\ outcomes = <<>>
    /\ waits = <<>>
    /\ aresp = NoAnalysisResponse
    /\ ScrapeIdle
    /\ SlugIdle
    /\ UIIdle

\* POST up to the first call of the language model
AnalyzeReceive ==
    /\ apc = "start"
    /\ ACommit(IF PromptThrows(abody) THEN AnalysisCatch(AFrame, "TypeError")
               ELSE CallModel(AFrame, abody))
    /\ UNCHANGED <<abody, scrapeVars, svars, uvars>>

\* the call resolves with a completion
CompletionArrives ==
    /\ apc = "calling"
    /\ \E content \in Contents :
          ACommit(AnalysisResponse([AFrame EXCEPT !.outcomes = Append(@, "ok")],
                                   content))
    /\ UNCHANGED <<abody, scrapeVars, svars, uvars>>

\* the call rejects
CallFails ==
    /\ apc = "calling"
    /\ \E message \in CallErrors :
          ACommit(RetryCatch([AFrame EXCEPT !.outcomes = Append(@, "fail")],
                             message))
    /\ UNCHANGED <<abody, scrapeVars, svars, uvars>>

\* the backoff timer fires
TimerFires ==
    /\ apc = "waiting"
    /\ ACommit(NextIteration(AFrame, abody))
    /\ UNCHANGED <<abody, scrapeVars, svars, uvars>>

NextAnalyze ==
    \/ AnalyzeReceive
    \/ CompletionArrives
    \/ CallFails
    \/ TimerFires

SpecAnalyze == InitAnalyze /\ [][NextAnalyze]_vars

\* ------------------------------------------------------------------------
\* normalizePluginSlug applied to a name, then to its own result
\* ------------------------------------------------------------------------

\* longest name
MaxSlugLen == 3

\* a lowercase letter, an uppercase letter, a digit, the hyphen and two
\* other characters
SlugAlphabet == {"a", "B", "7", "-", "_", " "}

SlugInputs == UNION {[1..n -> SlugAlphabet] : n \in 0..MaxSlugLen}

InitSlug ==
    /\ slugIn \in SlugInputs
    /\ slugOut = <<>>
    /\ slugCalls = 0
    /\ ScrapeIdle
    /\ AnalysisIdle
    /\ UIIdle

\* normalizePluginSlug(name)
NormalizeName ==
    /\ slugCalls = 0
    /\ slugOut' = normalizePluginSlug(slugIn)
    /\ slugCalls' = 1
    /\ UNCHANGED <<slugIn, scrapeVars, avars, uvars>>

\* normalizePluginSlug(normalizePluginSlug(name))
NormalizeResult ==
    /\ slugCalls = 1
    /\ slugIn' = slugOut
    /\ slugOut' = normalizePluginSlug(slugOut)
    /\ slugCalls' = 2
    /\ UNCHANGED <<scrapeVars, avars, uvars>>

NextSlug ==
    \/ NormalizeName
    \/ NormalizeResult

SpecSlug == InitSlug /\ [][NextSlug]_vars

\* ------------------------------------------------------------------------
\* The page: handleSubmit and the export button
\* ------------------------------------------------------------------------

\* submits followed
MaxSubmits == 3

\* how /api/scrape can answer: the fetch rejects, a status outside 2xx, a
\* 2xx whose body is not JSON, a 2xx whose body is the JSON null, a 2xx
\* report of a WordPress site, a 2xx report of another site
ScrapeAnswers == {"neterr", "non2xx", "badjson", "nulljson", "wordpress", "other"}

\* how /api/analyze can answer: the fetch rejects, a status outside 2xx, a
\* 2xx whose body is not JSON, a 2xx with an analysis text, with an empty
\* text, with no analysis field
AnalysisAnswers == {"neterr", "non2xx", "badjson", "text", "empty", "missing"}

\* analysisData.analysis as stored by setAnalysis
AnalysisValue(b) ==
    CASE b = "text" -> "text"
      [] b = "empty" -> ""
      [] b = "missing" -> "undefined"

\* a JavaScript value is truthy
TruthyText(x) == x \notin {"null", "undefined", ""}

\* the scrape answer gets past `if (!response.ok)` and `await response.json()`
ScrapeParsed(a) == a \in {"wordpress", "other"}

AnalyzeWantedForAny(a) == ScrapeParsed(a)

\* if (data.isWordPress)
AnalyzeWanted(a) == a = "wordpress"

\* {result && ( ... {analysis && !analyzing && ( <button onClick={handleExportPDF}>
ExportOffered == TruthyText(uresult) /\ TruthyText(analysis) /\ ~analyzing

\* catch (err) { setError(...) } finally { setLoading(false); setAnalyzing(false) }
Finally(failedWith) ==
    /\ uerror' = IF failedWith = "none" THEN uerror ELSE failedWith
    /\ loading' = FALSE
    /\ analyzing' = FALSE
    /\ upc' = "idle"

\* submits so far
Submits == Cardinality({j \in DOMAIN calls : calls[j] = "scrape"})

InitUI ==
    /\ UIIdle
    /\ ScrapeIdle
    /\ AnalysisIdle
    /\ SlugIdle

\* the form is submitted (its button is disabled while loading): handleSubmit
\* up to the first await
Submit ==
    /\ upc = "idle"
    /\ ~loading
    /\ Submits < MaxSubmits
    /\ loading' = TRUE
    /\ uerror' = "null"
    /\ analysis' = "null"
    /\ calls' = Append(calls, "scrape")
    /\ scrapeAnswer' = "none"
    /\ exported' = FALSE
    /\ upc' = "scrape"
    /\ UNCHANGED <<analyzing, uresult, scrapeVars, avars, svars>>

\* the scrape endpoint answers with a: handleSubmit from the resumption after
\* fetch, through `await response.json()` (no hook is set in between), up to
\* the fetch of the analysis endpoint or to the end of the handler
ScrapeAnswered(a) ==
    /\ upc = "scrape"
    /\ scrapeAnswer' = a
    /\ uresult' = CASE ScrapeParsed(a) -> a
                     [] a = "nulljson" -> "null"
                     [] OTHER -> uresult
    /\ IF ScrapeParsed(a) /\ AnalyzeWanted(a)
       THEN /\ analyzing' = TRUE
            /\ calls' = Append(calls, "analyze")
            /\ upc' = "analyze"
            /\ UNCHANGED <<loading, uerror>>
       ELSE /\ Finally(CASE a = "neterr" -> "Failed to fetch"
                         [] a = "non2xx" -> "Failed to scrape website"
                         [] a = "badjson" -> "Unexpected token"
                         [] a = "nulljson" -> "Cannot read properties of null"
                         [] OTHER -> "none")
            /\ UNCHANGED calls
    /\ UNCHANGED <<analysis, exported, scrapeVars, avars, svars>>

\* the analysis endpoint answers with b: handleSubmit from the resumption
\* after fetch, through `await analysisResponse.json()`, to its end
AnalysisAnswered(b) ==
    /\ upc = "analyze"
    /\ analysis' = IF b \in {"text", "empty", "missing"} THEN AnalysisValue(b)
                   ELSE analysis
    /\ Finally(CASE b = "neterr" -> "Failed to fetch"
                 [] b = "badjson" -> "Unexpected token"
                 [] OTHER -> "none")
    /\ UNCHANGED <<uresult, calls, scrapeAnswer, exported, scrapeVars, avars, svars>>

\* the export button is pressed
ExportClick ==
    /\ ExportOffered
    /\ ~exported
    /\ exported' = TRUE
    /\ UNCHANGED <<upc, loading, analyzing, uerror, uresult, analysis, calls,
                   scrapeAnswer, scrapeVars, avars, svars>>

NextUI ==
    \/ Submit
    \/ \E a \in ScrapeAnswers : ScrapeAnswered(a)
    \/ \E b \in AnalysisAnswers : AnalysisAnswered(b)
    \/ ExportClick

SpecUI == InitUI /\ [][NextUI]_vars

\* ------------------------------------------------------------------------
\* Actions
\* ------------------------------------------------------------------------

Init ==
    /\ pc = "start"
    /\ body \in Bodies
    /\ site \in Sites
    /\ faults = 0
    /\ failed = {}
    /\ primaryStatus = 0
    /\ netlog = <<>>
    /\ evidence = {}
    /\ resp = NoResponse
    /\ nresp = 0
    /\ wpVersion = Unknown
    /\ phpVersion = Unknown
    /\ apacheVersion = Unknown
    /\ plugins = <<>>
    /\ hasSecurityPlugin = FALSE
    /\ isWPUpToDate = FALSE
    /\ isWordPress = FALSE
    /\ theme = NoTheme
    /\ pending = {}
    /\ dirPlugins = <<>>
    /\ vstage = <<>>
    /\ feedPending = {}
    /\ feedPlugins = <<>>
    /\ feedReturned = FALSE
    /\ AnalysisIdle
    /\ SlugIdle
    /\ UIIdle

\* the environment answers a secondary probe with outcome o
Answer(o, probe) ==
    /\ o # "ok" => faults < MaxFaults
    /\ faults' = IF o = "ok" THEN faults ELSE faults + 1
    /\ failed' = IF o = "ok" THEN failed
                 ELSE failed \cup {[probe |-> probe, how |-> o, at |-> Len(netlog)]}
    /\ UNCHANGED <<body, site, primaryStatus, avars, svars, uvars>>

\* POST up to the primary fetch
Receive ==
    /\ pc = "start"
    /\ LET st == ValidationStatus(body)
       IN  Commit(IF st = 500 THEN CatchAll(Frame)
                  ELSE IF st # 0 THEN ErrorResponse(Frame, st)
                  ELSE Issue([Frame EXCEPT !.pc = "primary"], <<P_primary>>))
    /\ UNCHANGED <<body, site, faults, failed, primaryStatus, avars, svars, uvars>>

\* the primary fetch rejects: outer catch
PrimaryFails ==
    /\ pc = "primary"
    /\ Commit(CatchAll(Frame))
    /\ UNCHANGED <<body, site, faults, failed, primaryStatus, avars, svars, uvars>>

PrimaryReply ==
    /\ pc = "primary"
    /\ \E status \in PrimaryStatuses :
          /\ primaryStatus' = status
          /\ Commit(IF PrimaryAborts(status) THEN ErrorResponse(Frame, status)
                    ELSE AfterPrimary(Frame, site))
    /\ UNCHANGED <<body, site, faults, failed, avars, svars, uvars>>

ReadmeReply ==
    /\ pc = "readme"
    /\ \E o \in Outcomes :
          /\ Answer(o, P_readme)
          /\ LET v == readmeVersion(o, site.readmeHtml)
             IN  Commit(AfterWp(Used(Frame, P_readme, Truthy(v)), site, v))

PhpinfoReply ==
    /\ pc = "phpinfo"
    /\ \E o \in Outcomes :
          /\ Answer(o, P_phpinfo)
          /\ LET v == phpinfoVersion(o, site.phpinfo)
             IN  Commit(AfterPhp(Used(Frame, P_phpinfo, Truthy(v)), site, v))

WpJsonReply ==
    /\ pc = "wpjson"
    /\ \E o \in Outcomes :
          /\ Answer(o, P_wpjson)
          /\ LET names == wpJsonNames(o, site.namespaces)
             IN  Commit(AfterWpJson(Used(Frame, P_wpjson, names # <<>>), site, names))

\* one registry lookup resolves; its callback writes its own plugin
RegistryReply ==
    /\ pc = "registry"
    /\ \E i \in pending, o \in Outcomes :
          LET slug == normalizePluginSlug(plugins[i].name)
              probe == Probe("registry", slug, i)
              latestVersion == getLatestPluginVersion(o, Lookup(site.latest, slug))
              F == Used([Frame EXCEPT !.pending = @ \ {i}], probe,
                        Truthy(latestVersion))
              G == IF Truthy(latestVersion)
                   THEN [F EXCEPT !.plugins[i].latestVersion = latestVersion,
                                  !.plugins[i].isUpToDate =
                                      PluginCurrency(F.plugins[i].version,
                                                     latestVersion)]
                   ELSE F
          IN  /\ Answer(o, probe)
              /\ Commit(IF G.pending = {} THEN StartDirectory(G, site) ELSE G)

\* the listing of /wp-content/plugins/ arrives
DirReply ==
    /\ pc = "dir"
    /\ \E o \in Outcomes :
          LET list == scanListing(o, site.dirListing)
              F == Used(Frame, P_dir, list # <<>>)
          IN  /\ Answer(o, P_dir)
              /\ Commit(IF list = <<>> THEN AfterDirectory(F, site, <<>>)
                        ELSE Issue([F EXCEPT !.pc = "dirreadme",
                                             !.dirPlugins = list,
                                             !.pending = 1..Len(list)],
                                   [i \in 1..Len(list) |->
                                       Probe("readme.txt", list[i].name, 0)]))

\* readme.txt of one listed plugin arrives
DirReadmeReply ==
    /\ pc = "dirreadme"
    /\ \E i \in pending, o \in Outcomes :
          LET name == dirPlugins[i].name
              probe == Probe("readme.txt", name, 0)
              v == dirReadmeVersion(o, Lookup(site.dirReadme, name))
              F == Used([Frame EXCEPT !.pending = @ \ {i}], probe, Truthy(v))
              G == IF Truthy(v)
                   THEN [F EXCEPT !.dirPlugins = SetVersion(@, i, v)]
                   ELSE F
          IN  /\ Answer(o, probe)
              /\ Commit(IF G.pending = {} THEN AfterDirectory(G, site, G.dirPlugins)
                        ELSE G)

\* the main file of one plugin without a version arrives
HeaderReply ==
    /\ pc = "vprobe"
    /\ \E i \in 1..Len(plugins), o \in Outcomes :
          /\ vstage[i] = 1
          /\ LET name == plugins[i].name
                 probe == Probe("plugin.php", name, 0)
                 v == checkPluginHeaders(o, Lookup(site.header, name))
                 F == Used(Frame, probe, Truthy(v))
             IN  /\ Answer(o, probe)
                 /\ Commit(IF Truthy(v)
                           THEN AfterVersionProbe(
                                    [F EXCEPT !.plugins = SetVersion(@, i, v),
                                              !.vstage[i] = 0], site)
                           ELSE Issue([F EXCEPT !.vstage[i] = 2],
                                      <<Probe("changelog", name, 1)>>))

\* one changelog file of one plugin arrives
ChangelogReply ==
    /\ pc = "vprobe"
    /\ \E i \in 1..Len(plugins), o \in Outcomes :
          /\ vstage[i] >= 2
          /\ LET name == plugins[i].name
                 k == vstage[i] - 1
                 probe == Probe("changelog", name, k)
                 v == changelogFileVersion(o, ChangelogServed(site, name, k))
                 F == Used(Frame, probe, Truthy(v))
             IN  /\ Answer(o, probe)
                 /\ Commit(IF o = "neterr" THEN InlineScripts(F, site, i)
                           ELSE IF Truthy(v)
                           THEN AfterVersionProbe(
                                    [F EXCEPT !.plugins = SetVersion(@, i, v),
                                              !.vstage[i] = 0], site)
                           ELSE IF k < 4
                           THEN Issue([F EXCEPT !.vstage[i] = @ + 1],
                                      <<Probe("changelog", name, k + 1)>>)
                           ELSE InlineScripts(F, site, i))

AjaxReply ==
    /\ pc = "ajax"
    /\ \E o \in Outcomes :
          LET names == ajaxNames(o, site.ajax)
              F == Used(Frame, P_ajax, names # <<>>)
          IN  /\ Answer(o, P_ajax)
              /\ Commit(AfterAjax(F, site, PushNames(<<>>, names)))

\* one feed fetch of checkFeedForPlugins ends.  A rejected fetch rejects
\* the Promise.all at once: the function returns its list as it is, while
\* the other callbacks are still running.
FeedReply ==
    /\ feedPending # {}
    /\ \E k \in feedPending, o \in Outcomes :
          LET probe == Probe("feed", NoName, k)
              names == feedNames(o, site.feeds[k])
              list == PushNames(feedPlugins, names)
              F == Used([Frame EXCEPT !.feedPending = @ \ {k},
                                      !.feedPlugins = list],
                        probe, list # feedPlugins)
          IN  /\ Answer(o, probe)
              /\ Commit(IF ~feedReturned /\ (o = "neterr" \/ F.feedPending = {})
                        THEN AfterFeeds(F, site)
                        ELSE F)

\* one error-page fetch ends; its callback pushes to the shared list
ErrorReply ==
    /\ pc = "errors"
    /\ \E k \in pending, o \in Outcomes :
          LET probe == Probe("error-url", NoName, k)
              names == errorPageNames(o, site.errors[k])
              list == PushNames(plugins, names)
              F == Used([Frame EXCEPT !.pending = @ \ {k}, !.plugins = list],
                        probe, list # plugins)
          IN  /\ Answer(o, probe)
              /\ Commit(IF F.pending = {} THEN Finish(F, site) ELSE F)

Next ==
    \/ Receive
    \/ PrimaryFails
    \/ PrimaryReply
    \/ ReadmeReply
    \/ PhpinfoReply
    \/ WpJsonReply
    \/ RegistryReply
    \/ DirReply
    \/ DirReadmeReply
    \/ HeaderReply
    \/ ChangelogReply
    \/ AjaxReply
    \/ FeedReply
    \/ ErrorReply

Spec == Init /\ [][Next]_vars

\* ------------------------------------------------------------------------
\* Properties of the scrape endpoint
\* ------------------------------------------------------------------------

ReportSent == pc = "done" /\ resp.kind = "report"

Range(seq) == {seq[i] : i \in 1..Len(seq)}

\* C1: a request whose url is a non-empty string that is not an absolute
\* URL is answered 400, and no outbound request is ever issued for it.
C1_MalformedUrlRejected ==
    (body.json = "value" /\ body.url \in {UrlMalformed, UrlRelative}) =>
        /\ netlog = <<>>
        /\ pc \in {"start", "done"}
        /\ pc = "done" => (resp.kind = "error" /\ resp.status = 400)

C1_Witness ==
    /\ body.url = UrlMalformed
    /\ pc = "done"
    /\ resp.status = 400
    /\ netlog = <<>>

\* C2: a request without a url (no url property, null or empty url, or a
\* body that is the JSON value null) is answered 400, and no outbound
\* request is issued.
C2_AbsentUrlRejected ==
    (body.json \in {"null", "value"} /\ Falsy(body.url)) =>
        /\ netlog = <<>>
        /\ pc \in {"start", "done"}
        /\ pc = "done" => (resp.kind = "error" /\ resp.status = 400)

C5_FailedProbeNoEvidence ==
    /\ (pc = "done" /\ primaryStatus = 200) =>
          (resp.kind = "report" /\ resp.status = 200)
    /\ \A f \in failed : f.probe \notin evidence
    /\ \A f \in failed : \A j \in (f.at + 1)..Len(netlog) :
          UrlOf(netlog[j]) # UrlOf(f.probe)

\* C5 amended: as above, except that an error-page probe answered with a
\* non-2xx status still contributes the plugin paths of its body; only a
\* rejected error-page fetch contributes nothing.
C5_FailedProbeNoEvidenceButErrorPages ==
    /\ (pc = "done" /\ primaryStatus = 200) =>
          (resp.kind = "report" /\ resp.status = 200)
    /\ \A f \in failed :
          f.probe \in evidence => (f.probe[1] = "error-url" /\ f.how = "non2xx")
    /\ \A f \in failed : \A j \in (f.at + 1)..Len(netlog) :
          UrlOf(netlog[j]) # UrlOf(f.probe)

C5_Witness ==
    /\ ReportSent
    /\ site.dirListing # <<>>
    /\ \E f \in failed : f.probe = P_dir /\ f.how = "non2xx"

\* C6: the plugins of the report never hold two entries whose names have
\* the same normalized slug.
C6_UniqueSlugs ==
    ReportSent =>
        \A i, j \in 1..Len(resp.body.plugins) :
            normalizePluginSlug(resp.body.plugins[i].name)
              = normalizePluginSlug(resp.body.plugins[j].name) => i = j

\* C7: a plugin first found by an asset tag without a version, and named
\* again by an HTML comment with a valid semantic version, is reported
\* with versionDetected true and the comment's version.
C7_LaterVersionFillsIn ==
    ReportSent =>
        \A a \in Range(site.page.assets), c \in Range(site.page.comments) :
            (a.plugin = c.name /\ FirstPatternMatch(a.pm) = Null
               /\ SemverValid(c.version)) =>
                \E p \in Range(resp.body.plugins) :
                    /\ p.name = c.name
                    /\ p.versionDetected
                    /\ p.version = c.version

\* C8: in the report, a plugin with latestVersion has isUpToDate undefined
\* exactly when its reported version or its latestVersion is not a valid
\* semantic version, and otherwise isUpToDate = (version >= latestVersion).
C8_CurrencyMatchesReportedVersion ==
    ReportSent =>
        \A p \in Range(resp.body.plugins) :
            p.latestVersion # Absent =>
                LET bothValid == SemverValid(p.version) /\ SemverValid(p.latestVersion)
                IN  /\ (p.isUpToDate = "undefined") = ~bothValid
                    /\ bothValid =>
                          (p.isUpToDate = "true") = SemverGte(p.version, p.latestVersion)

\* the states in which the registry callbacks have compared the versions
\* the plugins had when the lookups were launched
CurrencyCompared == pc \in {"registry", "dir"}

\* C9 as stated: installed 1.2.3 with latest 1.2.3 gives isUpToDate true,
\* installed 1.0 with latest 2.0 gives isUpToDate false.
C9_CurrencyExamples ==
    CurrencyCompared =>
        \A p \in Range(plugins) :
            /\ (p.version = V123 /\ p.latestVersion = V123) => p.isUpToDate = "true"
            /\ (p.version = V10 /\ p.latestVersion = V20) => p.isUpToDate = "false"

\* C9 amended: installed 1.2.3 with latest 1.2.3 gives isUpToDate true;
\* installed 1.0 with latest 2.0 gives undefined, because neither passes
\* semver.valid; the three-component 1.0.0 with latest 2.0.0 gives false.
C9_CurrencyExamplesStrict ==
    CurrencyCompared =>
        \A p \in Range(plugins) :
            /\ (p.version = V123 /\ p.latestVersion = V123) => p.isUpToDate = "true"
            /\ (p.version = V10 /\ p.latestVersion = V20) => p.isUpToDate = "undefined"
            /\ (p.version = V100 /\ p.latestVersion = V200) => p.isUpToDate = "false"

C9_Witness ==
    /\ pc = "dir"
    /\ \E p \in Range(plugins) : p.version = V123 /\ p.latestVersion = V123
    /\ \E p \in Range(plugins) : p.version = V10 /\ p.latestVersion = V20

\* the registry lookup of plugin i has been answered
LookupAnswered(i) ==
    /\ \E j \in 1..Len(netlog) : netlog[j][1] = "registry" /\ netlog[j][3] = i
    /\ ~(pc = "registry" /\ i \in pending)

LookupFailed(i) ==
    \/ \E f \in failed : f.probe[1] = "registry" /\ f.probe[3] = i
    \/ ~Truthy(Lookup(site.latest, normalizePluginSlug(plugins[i].name)))

\* C10: a plugin whose registry lookup failed (network error, non-2xx, no
\* version in the body) stays in the list with latestVersion absent and
\* isUpToDate undefined; every plugin whose lookup succeeded has the
\* version the registry served; the request ends with a 200 report that
\* holds all of them.
C10_FailedLookupLeavesPlugin ==
    /\ \A i \in 1..Len(plugins) :
          LookupAnswered(i) =>
              IF LookupFailed(i)
              THEN /\ plugins[i].latestVersion = Absent
                   /\ plugins[i].isUpToDate = "undefined"
              ELSE plugins[i].latestVersion
                     = site.latest[normalizePluginSlug(plugins[i].name)]
    /\ (pc = "done" /\ primaryStatus = 200) =>
          /\ resp.kind = "report"
          /\ resp.status = 200
          /\ resp.body.plugins = plugins

C10_Witness ==
    /\ ReportSent
    /\ \E i, j \in 1..Len(plugins) :
          /\ \E f \in failed : f.probe[1] = "registry" /\ f.probe[3] = i
          /\ plugins[i].latestVersion = Absent
          /\ plugins[j].latestVersion # Absent

\* ------------------------------------------------------------------------
\* Core currency, security flag, theme, end-to-end scenarios
\* ------------------------------------------------------------------------

\* the security check, the core currency check and the WordPress check
\* have run
CoreChecked ==
    /\ pc \notin {"start", "primary", "readme", "phpinfo", "wpjson"}
    /\ pc = "done" => resp.kind = "report"

\* "6.4.3" or later, for a version of exactly three numeric components
AtLeastBaseline(v) ==
    /\ Len(v) = 3
    /\ \A i \in 1..3 : v[i] >= 0
    /\ v[1] * 10000 + v[2] * 100 + v[3] >= 60403

\* C11: isWPUpToDate is a boolean; it is true exactly when the detected
\* core version is a valid semantic version >= 6.4.3, and false when the
\* version is Unknown or has two components (6.2, 6.5); the report
\* carries that value next to that version.
C11_CoreCurrency ==
    /\ isWPUpToDate \in BOOLEAN
    /\ CoreChecked =>
          /\ isWPUpToDate = AtLeastBaseline(wpVersion)
          /\ wpVersion \in {Unknown, V62, V65} => ~isWPUpToDate
    /\ ReportSent =>
          /\ resp.body.isWPUpToDate \in BOOLEAN
          /\ resp.body.isWPUpToDate = AtLeastBaseline(resp.body.wpVersion)

C11_Witness ==
    /\ ReportSent
    /\ resp.body.wpVersion = V65
    /\ resp.body.isWPUpToDate = FALSE

\* C12: the report's hasSecurityPlugin is true exactly when the plugins of
\* that report hold a plugin whose lowercased name is one of the security
\* plugin slugs, whichever probe discovered it.
C12_SecurityFlagMatchesReport ==
    ReportSent =>
        resp.body.hasSecurityPlugin
          = (\E p \in Range(resp.body.plugins) :
                toLowerCase(p.name) \in SecurityPlugins)

\* C13: when the page has stylesheet links under /wp-content/themes/, the
\* report's theme has the name and the version of the first of them in
\* document order.
C13_FirstThemeLinkWins ==
    (ReportSent /\ site.page.themeLinks # <<>>) =>
        /\ resp.body.theme.name = site.page.themeLinks[1].name
        /\ resp.body.theme.version = site.page.themeLinks[1].ver

\* the page carries no plugin and no theme marker
NoMarkers(page) ==
    /\ page.assets = <<>>
    /\ page.comments = <<>>
    /\ page.gens = <<>>
    /\ page.scripts = <<>>
    /\ page.themeLinks = <<>>
    /\ page.themeMeta = NoName

\* C14: a page whose generator meta tag says WordPress 6.2, without any
\* plugin or theme marker, and secondary probes that give no evidence:
\* the report has isWordPress true, wpVersion 6.2, isWPUpToDate false, no
\* plugins and no theme.
C14_GeneratorOnlyReport ==
    (ReportSent /\ site.page.genWp = V62 /\ NoMarkers(site.page) /\ evidence = {}) =>
        /\ resp.body.isWordPress = TRUE
        /\ resp.body.wpVersion = V62
        /\ resp.body.isWPUpToDate = FALSE
        /\ resp.body.plugins = <<>>
        /\ resp.body.theme = NoTheme

C14_Witness ==
    /\ ReportSent
    /\ site.page.genWp = V62
    /\ NoMarkers(site.page)
    /\ evidence = {}
    /\ Len(netlog) > 5

\* the page has the tag
\* <script src="/wp-content/plugins/akismet/akismet.js?ver=4.2.1">
AkismetAsset(page) ==
    \E a \in Range(page.assets) :
        a.plugin = N_akismet /\ FirstPatternMatch(a.pm) = V421

\* a secondary probe that was answered names a plugin other than akismet
NamesOtherPlugin(names) == \E n \in Range(names) : n # N_akismet

FurtherEvidence ==
    \/ \E k \in FeedUrls :
          /\ \A f \in failed : f.probe # Probe("feed", NoName, k)
          /\ NamesOtherPlugin(site.feeds[k])
    \/ \E k \in ErrorUrls :
          /\ \A f \in failed :
                f.probe = Probe("error-url", NoName, k) => f.how # "neterr"
          /\ NamesOtherPlugin(site.errors[k])
    \/ site.ajax # <<>>
    \/ site.dirListing # <<>>
    \/ NamespaceNames(site.namespaces) # <<>>

\* C15: with that tag in the page, the report holds exactly one entry
\* named akismet, with version 4.2.1 and versionDetected true, also when
\* feeds and error pages show the same path again; when no answered
\* probe names another plugin it is the only entry.
C15_AkismetOnce ==
    (ReportSent /\ AkismetAsset(site.page)) =>
        LET list == resp.body.plugins
            hits == {i \in 1..Len(list) : toLowerCase(list[i].name) = N_akismet}
        IN  /\ Cardinality(hits) = 1
            /\ \A i \in hits :
                  /\ list[i].name = N_akismet
                  /\ list[i].version = V421
                  /\ list[i].versionDetected
            /\ ~FurtherEvidence => Len(list) = 1

C15_Witness ==
    /\ ReportSent
    /\ AkismetAsset(site.page)
    /\ ~FurtherEvidence
    /\ Probe("feed", NoName, 1) \in evidence
    /\ \A f \in failed : f.probe # Probe("error-url", NoName, 1)

\* ------------------------------------------------------------------------
\* Phases of the handler
\* ------------------------------------------------------------------------

\* a registry lookup has been issued
RegistryIssued == \E j \in 1..Len(netlog) : netlog[j][1] = "registry"

\* no plugin is added, and no plugin's version or versionDetected changes
ResolutionFrozen ==
    /\ Len(plugins') = Len(plugins)
    /\ \A i \in 1..Len(plugins) :
          /\ plugins'[i].name = plugins[i].name
          /\ plugins'[i].version = plugins[i].version
          /\ plugins'[i].versionDetected = plugins[i].versionDetected

\* every plugin of the report had a registry lookup issued for its slug
AllLookedUp ==
    ReportSent =>
        \A p \in Range(resp.body.plugins) :
            \E j \in 1..Len(netlog) :
                /\ netlog[j][1] = "registry"
                /\ netlog[j][2] = normalizePluginSlug(p.name)

\* C18: once the first registry lookup has been issued the plugin set is
\* final (no plugin added, no version or versionDetected changed), and
\* every plugin of the report had a registry lookup for its normalized
\* slug.
C18_ResolutionBeforeCurrency ==
    /\ [][RegistryIssued => ResolutionFrozen]_vars
    /\ []AllLookedUp

\* feed k was answered 2xx
FeedAnsweredOk(k) ==
    /\ \E j \in 1..Len(netlog) : netlog[j] = Probe("feed", NoName, k)
    /\ k \notin feedPending
    /\ \A f \in failed : f.probe # Probe("feed", NoName, k)

\* the fetch of feed k was rejected
FeedRejected(k) ==
    \E f \in failed : f.probe = Probe("feed", NoName, k) /\ f.how = "neterr"

\* C19: when one feed fetch is rejected and another feed is answered 2xx
\* with plugin paths, the report holds the plugin names of the answered
\* feed, in whatever order the three fetches end.
C19_FeedsIndependent ==
    ReportSent =>
        \A k, m \in FeedUrls :
            (FeedAnsweredOk(k) /\ FeedRejected(m)) =>
                \A n \in Range(site.feeds[k]) :
                    \E p \in Range(resp.body.plugins) : p.name = n

\* the main file of the plugin named n has been requested
HeaderProbed(n) ==
    \E j \in 1..Len(netlog) : netlog[j] = Probe("plugin.php", n, 0)

\* C20: every plugin of the report whose versionDetected is false had its
\* main file requested; a changelog file is requested only after the main
\* file of the same plugin; and a version probe callback is in flight only
\* for plugins whose versionDetected is false.
C20_VersionProbesForUnversioned ==
    /\ ReportSent =>
          \A p \in Range(resp.body.plugins) :
              ~p.versionDetected => HeaderProbed(p.name)
    /\ \A j \in 1..Len(netlog) :
          netlog[j][1] = "changelog" =>
              \E h \in 1..(j - 1) : netlog[h] = Probe("plugin.php", netlog[j][2], 0)
    /\ pc = "vprobe" =>
          \A i \in 1..Len(plugins) : vstage[i] > 0 => ~plugins[i].versionDetected

\* ------------------------------------------------------------------------
\* Properties of the analysis endpoint
\* ------------------------------------------------------------------------

AllFailed == \A k \in 1..Len(outcomes) : outcomes[k] = "fail"

\* C16: the language model is called at most maxRetries (3) times; only
\* the last call made can have succeeded, and a success is answered with
\* {analysis: ...} and status 200; when all maxRetries calls failed the
\* answer is 500 with an error message; each wait follows a failed call
\* and is followed by another call, so there is none after the last call.
C16_BoundedRetries ==
    /\ Len(sent) <= maxRetries
    /\ Len(outcomes) = IF apc = "calling" THEN Len(sent) - 1 ELSE Len(sent)
    /\ \A k \in 1..(Len(outcomes) - 1) : outcomes[k] = "fail"
    /\ (aresp.kind = "analysis") = (outcomes # <<>> /\ ~AllFailed)
    /\ aresp.kind = "analysis" =>
          (apc = "done" /\ aresp.status = 200 /\ DOMAIN aresp.body = {"analysis"})
    /\ (Len(outcomes) = maxRetries /\ AllFailed) =>
          /\ apc = "done"
          /\ aresp.kind = "error"
          /\ aresp.status = 500
          /\ "error" \in DOMAIN aresp.body
    /\ Len(waits) = IF apc = "waiting" THEN Len(sent)
                    ELSE IF sent = <<>> THEN 0
                    ELSE Len(sent) - 1
    /\ apc = "waiting" => Len(sent) < maxRetries

C16_Witness ==
    /\ apc = "done"
    /\ aresp.status = 500
    /\ Len(sent) = maxRetries
    /\ AllFailed
    /\ Len(waits) = maxRetries - 1

\* ------------------------------------------------------------------------
\* Properties of normalizePluginSlug
\* ------------------------------------------------------------------------

\* ^[a-z0-9]+(-[a-z0-9]+)*$ or the empty string
SlugShape(t) ==
    /\ \A i \in 1..Len(t) :
          t[i] = "-" \/ t[i] \in Digits \/ \E c \in 1..26 : LowerCase[c] = t[i]
    /\ t # <<>> => (t[1] # "-" /\ t[Len(t)] # "-")
    /\ \A i \in 1..(Len(t) - 1) : ~(t[i] = "-" /\ t[i + 1] = "-")

\* C17: the result of normalizePluginSlug is empty or made of lowercase
\* letters, digits and single inner hyphens, and normalizing a result
\* gives the same string again.
C17_NormalizeIdempotent ==
    /\ slugCalls >= 1 => SlugShape(slugOut)
    /\ slugCalls = 2 => slugOut = slugIn

C17_Witness ==
    /\ slugCalls = 2
    /\ slugOut = <<"a", "-", "b">>
    /\ slugIn = slugOut

\* ------------------------------------------------------------------------
\* Concurrent probe groups and the shared plugin list
\* ------------------------------------------------------------------------

\* positions at which a Promise.all group of probe callbacks is in flight
GroupPositions == {"registry", "dirreadme", "vprobe", "feeds", "errors"}

\* a callback of a group ran and the group is still unresolved
CallbackStep == pc \in GroupPositions /\ pc' = pc

\* C21: a step of a probe callback inside a group that has not resolved
\* yet adds nothing to the shared plugin list; it writes its own record
\* or a group-local list only.
C21_NoSharedWriteInGroup ==
    [][CallbackStep =>
          /\ Len(plugins') = Len(plugins)
          /\ \A i \in 1..Len(plugins) : plugins'[i].name = plugins[i].name]_vars

\* ------------------------------------------------------------------------
\* Version patterns, child themes
\* ------------------------------------------------------------------------

\* detection methods 1 to 3 have run and the request was not rejected
ExtractorsRan ==
    /\ pc \notin {"start", "primary", "readme", "phpinfo"}
    /\ pc = "done" => resp.kind = "report"

\* asset k is the first asset of the page that names its plugin
FirstOfItsName(page, k) ==
    \A j \in 1..(k - 1) :
        toLowerCase(page.assets[j].plugin) # toLowerCase(page.assets[k].plugin)

\* C22: the version of a plugin found by an asset URL is the capture of
\* the first pattern, in the order of the list, that matches the URL: the
\* ?ver= value when the URL has one, whatever the file name says, and a
\* later pattern's capture only when no earlier pattern matches.
C22_FirstPatternWins ==
    ExtractorsRan =>
        \A k \in 1..Len(site.page.assets) :
            LET a == site.page.assets[k]
            IN  (FirstOfItsName(site.page, k) /\ DOMAIN a.pm # {}) =>
                    \E p \in Range(plugins) :
                        /\ p.name = a.plugin
                        /\ p.versionDetected
                        /\ \E m \in DOMAIN a.pm :
                              /\ p.version = a.pm[m]
                              /\ \A j \in DOMAIN a.pm : m <= j
                        /\ 1 \in DOMAIN a.pm => p.version = a.pm[1]

C22_Witness ==
    /\ ReportSent
    /\ \E a \in Range(site.page.assets) :
          /\ {1, 3} \subseteq DOMAIN a.pm
          /\ a.pm[1] # a.pm[3]
          /\ \E p \in Range(resp.body.plugins) :
                p.name = a.plugin /\ p.version = a.pm[1]
    /\ \E a \in Range(site.page.assets) :
          /\ 1 \notin DOMAIN a.pm
          /\ {2, 4} \subseteq DOMAIN a.pm
          /\ \E p \in Range(resp.body.plugins) :
                p.name = a.plugin /\ p.version = a.pm[2]

\* C23: when the first two theme stylesheet links of the page point at
\* different themes, the report's theme is the one of the first link, with
\* isChild true and the theme of the second link as parentTheme.
C23_FirstLinkIsChild ==
    (/\ ReportSent
     /\ Len(site.page.themeLinks) >= 2
     /\ site.page.themeLinks[1].dir # site.page.themeLinks[2].dir) =>
        /\ resp.body.theme.isChild
        /\ resp.body.theme.parentTheme = site.page.themeLinks[2].name
        /\ resp.body.theme.name = site.page.themeLinks[1].name

\* ------------------------------------------------------------------------
\* Backoff delays, prompt contents
\* ------------------------------------------------------------------------

\* the call was given up: every attempt failed and the handler answered
GivenUp == apc = "done" /\ Len(outcomes) = maxRetries /\ AllFailed

\* the waits so far are the first ones of 1 s, 2 s, 4 s
DoublingWaits == waits = SubSeq(<<1000, 2000, 4000>>, 1, Len(waits))

DetectedIffKnown(p) == p.versionDetected = (p.version # Unknown)

\* C25: in every plugin record, from its creation on and after every
\* probe that fills in a version (main file, changelog, inline script,
\* readme.txt), versionDetected is true exactly when version is not
\* "Unknown"; so it is in the report.
C25_DetectedIffKnown ==
    /\ \A p \in Range(plugins) \cup Range(dirPlugins) \cup Range(feedPlugins) :
          DetectedIffKnown(p)
    /\ ReportSent => \A p \in Range(resp.body.plugins) : DetectedIffKnown(p)

C25_Witness ==
    /\ ReportSent
    /\ \E p \in Range(resp.body.plugins) : p.version = Unknown
    /\ \E p \in Range(resp.body.plugins) :
          /\ p.versionDetected
          /\ \E e \in evidence :
                e[1] \in {"plugin.php", "changelog", "readme.txt"} /\ e[2] = p.name

\* C26: once the checks have run, and in every report, isWPUpToDate true
\* implies that wpVersion is not "Unknown", and wpVersion not "Unknown"
\* implies isWordPress true; no report says up-to-date core and not
\* WordPress.
C26_CurrentImpliesWordPress ==
    /\ CoreChecked =>
          /\ isWPUpToDate => wpVersion # Unknown
          /\ wpVersion # Unknown => isWordPress
    /\ ReportSent =>
          /\ resp.body.isWPUpToDate => resp.body.wpVersion # Unknown
          /\ resp.body.wpVersion # Unknown => resp.body.isWordPress
          /\ ~(resp.body.isWPUpToDate /\ ~resp.body.isWordPress)

C26_Witness ==
    /\ ReportSent
    /\ resp.body.isWPUpToDate
    /\ resp.body.isWordPress
    /\ P_readme \in evidence

\* C27: the theme of a report has isChild true exactly when it has a
\* parentTheme, and its parentTheme is not its own name, also when the
\* stylesheet href ends right after the theme directory
\* (/wp-content/themes/foo?ver=1).
C27_ParentIsAnotherTheme ==
    (ReportSent /\ resp.body.theme # NoTheme) =>
        /\ resp.body.theme.isChild = (resp.body.theme.parentTheme # NoName)
        /\ resp.body.theme.parentTheme # NoName =>
              resp.body.theme.parentTheme # resp.body.theme.name

\* error page k was answered (whatever the status) and its body read
ErrorPageRead(k) ==
    /\ pc = "done" \/ (pc = "errors" /\ k \notin pending)
    /\ \E j \in 1..Len(netlog) : netlog[j] = Probe("error-url", NoName, k)
    /\ \A f \in failed :
          f.probe = Probe("error-url", NoName, k) => f.how # "neterr"

\* C28: in whatever order the two error-page callbacks run, the shared
\* list never holds two entries with the same name; a name found in both
\* error pages, or already in the list, is there once.
C28_ErrorPagesPushOnce ==
    /\ \A i, j \in 1..Len(plugins) : plugins[i].name = plugins[j].name => i = j
    /\ \A k \in ErrorUrls : \A n \in Range(site.errors[k]) :
          ErrorPageRead(k) =>
              Cardinality({i \in 1..Len(plugins) : plugins[i].name = n}) = 1

C28_Witness ==
    /\ ReportSent
    /\ \A k \in ErrorUrls : ErrorPageRead(k)
    /\ \E n \in Range(site.errors[1]) \cap Range(site.errors[2]) :
          /\ \E p \in Range(resp.body.plugins) : p.name = n
          /\ \E k \in ErrorUrls : Probe("error-url", NoName, k) \in evidence

\* a plugin entry as the scrape endpoint writes it (version, never
\* currentVersion), with a detected version
ScrapedWithVersion(p) ==
    /\ p.currentVersion = Absent
    /\ Truthy(p.version)
    /\ p.version # Unknown

\* C29: in every prompt sent for a report of the scrape endpoint, the line
\* of a plugin whose version was detected shows that version.
C29_PromptShowsInstalledVersion ==
    \A k \in 1..Len(sent) :
        \A i \in 1..Len(abody.plugins) :
            ScrapedWithVersion(abody.plugins[i]) =>
                /\ sent[k][i].name = abody.plugins[i].name
                /\ sent[k][i].shown = abody.plugins[i].version

\* ------------------------------------------------------------------------
\* C30: the submit flow of the page
\* ------------------------------------------------------------------------

\* the last submit's scrape answer was a 2xx report with isWordPress = true
ScrapeSaidWordPress == scrapeAnswer = "wordpress"

\* C30: the analysis endpoint is fetched only after the scrape endpoint
\* answered the same submit with a 2xx report whose isWordPress is true (so
\* every fetch of it directly follows a fetch of the scrape endpoint, and
\* the handler waits for it only then); when the handler has finished,
\* whatever the outcome, loading and analyzing are both false; and the
\* export button is offered, and was pressed, only in states where analysis
\* is non-null and analyzing is false.
C30_SubmitFlow ==
    /\ \A j \in DOMAIN calls :
          calls[j] = "analyze" => j > 1 /\ calls[j - 1] = "scrape"
    /\ upc = "analyze" => ScrapeSaidWordPress
    /\ (calls # <<>> /\ calls[Len(calls)] = "analyze") => ScrapeSaidWordPress
    /\ (upc = "idle") => (~loading /\ ~analyzing)
    /\ ExportOffered => (analysis # "null" /\ ~analyzing)
    /\ exported => (analysis # "null" /\ ~analyzing)

\* a submit of a WordPress site has finished with its analysis on display,
\* the export button was pressed, and the next submit has not started
C30_Witness ==
    /\ calls = <<"scrape", "analyze">>
    /\ upc = "idle"
    /\ ScrapeSaidWordPress
    /\ analysis = "text"
    /\ ~loading
    /\ exported

====
